---- MODULE Spec2Model ----
(***************************************************************************)
(* Model of the data-access layer of echoaisync: the job mutators, the     *)
(* credit-balance computation and the OAuth callback route.                *)
(*                                                                         *)
(* The repository holds two copies of the data-access module:              *)
(*   src/unnamed/part_002  every query ends in .throwOnError() inside a    *)
(*                         try/catch; its functions keep the source names  *)
(*   src/unnamed/part_001  most queries do not use .throwOnError(); the    *)
(*                         functions of this copy carry the suffix P1      *)
(* The remote store (tables jobs, subscriptions, users) is modelled by the *)
(* Store* operators: one statement is one atomic step of the store.        *)
(***************************************************************************)
EXTENDS Integers, Sequences, FiniteSets, TLC

VARIABLES jobs, subscriptions, last, base, inflight, arrived, reqs

vars == <<jobs, subscriptions, last, base, inflight, arrived, reqs>>

(***************************************************************************)
(* Bounds of the model.                                                    *)
(***************************************************************************)
MaxJobs == 2
MaxTime == 2

(***************************************************************************)
(* Values.  SQL NULL / JS null of a text column is the string NULL; a      *)
(* numeric column holds <<>> (NULL) or <<n>>, so that a column is of one   *)
(* type.  A JS number is [nan |-> FALSE, v |-> n] or NaN.                  *)
(***************************************************************************)
NULL == "NULL"
NullNum == <<>>
Num(n) == <<n>>

JS(n) == [nan |-> FALSE, v |-> n]
NaN == [nan |-> TRUE, v |-> 0]
JSMinus(a, b) == IF a.nan \/ b.nan THEN NaN ELSE JS(a.v - b.v)
JSPlus(a, b) == IF a.nan \/ b.nan THEN NaN ELSE JS(a.v + b.v)

SessionUser == "u1"
OtherUser == "u2"
Times == 0 .. MaxTime

(***************************************************************************)
(* The jobs table: a sequence of rows, the row's id is its position.       *)
(***************************************************************************)
Columns ==
  {"id", "user_id", "status", "credits", "created_at", "is_deleted",
   "original_video_url", "transcription_id"}

\* The row the store builds for an insert before the payload is applied:
\* every column at its default.
DefaultRow(id, now) ==
  [id |-> id, user_id |-> NULL, status |-> NULL, credits |-> NullNum,
   created_at |-> now, is_deleted |-> FALSE, original_video_url |-> NULL,
   transcription_id |-> NULL]

\* A row with the columns of `fields` overwritten.
Assign(row, fields) ==
  [c \in Columns |-> IF c \in DOMAIN fields THEN fields[c] ELSE row[c]]

(***************************************************************************)
(* A response of the store client: {data, error}.  dataNull says that      *)
(* data is null (data is then <<>>).  A failed statement changes no row.   *)
(***************************************************************************)
Failed(table) == [error |-> TRUE, dataNull |-> TRUE, data |-> <<>>, table |-> table]
Ok(rows, table) == [error |-> FALSE, dataNull |-> FALSE, data |-> rows, table |-> table]

\* Variant: the .eq(col, key) filter is left out of the chain, so the
\* update reaches every row.
StoreUpdateNoFilter(table, col, key, fields, fails) ==
  IF fails THEN Failed(table)
  ELSE LET new == [i \in DOMAIN table |-> Assign(table[i], fields)]
       IN Ok(new, new)

\* Variant: a conditional update that only touches rows still "pending"
\* (a first-write-wins guard).
StoreUpdateIfPending(table, col, key, fields, fails) ==
  IF fails THEN Failed(table)
  ELSE LET new == [i \in DOMAIN table |->
                     IF table[i][col] = key /\ table[i].status = "pending"
                     THEN Assign(table[i], fields)
                     ELSE table[i]]
           hit(row) == table[row.id][col] = key /\ table[row.id].status = "pending"
       IN Ok(SelectSeq(new, hit), new)

\* from('jobs').update(fields).eq(col, key).select()
StoreUpdate(table, col, key, fields, fails) ==
  IF fails THEN Failed(table)
  ELSE LET new == [i \in DOMAIN table |->
                     IF table[i][col] = key THEN Assign(table[i], fields)
                     ELSE table[i]]
           hit(row) == table[row.id][col] = key
       IN Ok(SelectSeq(new, hit), new)

\* from('jobs').insert([payload]).select()
StoreInsert(table, payload, now, fails) ==
  IF fails THEN Failed(table)
  ELSE LET row == Assign(DefaultRow(Len(table) + 1, now), payload)
       IN Ok(<<row>>, Append(table, row))

\* from('users').select('*').single(): the one users row the session sees.
StoreUser(fails) ==
  IF fails THEN [error |-> TRUE, dataNull |-> TRUE, id |-> NULL]
  ELSE [error |-> FALSE, dataNull |-> FALSE, id |-> SessionUser]

(***************************************************************************)
(* What a function of the module hands to its caller.                      *)
(***************************************************************************)
Returns(value, table) == [threw |-> FALSE, value |-> value, table |-> table]
Throws(table) == [threw |-> TRUE, value |-> <<>>, table |-> table]

\* `data ?? []`
OrEmpty(r) == IF r.dataNull THEN <<>> ELSE r.data

\* getUserDetails: the user row's id, or NULL for a null user (both copies:
\* a failed lookup yields null, by the catch or by data being null).
getUserDetails(fails) ==
  LET r == StoreUser(fails)
  IN IF r.error \/ r.dataNull THEN NULL ELSE r.id

\* The insert payload { user_id: user?.id, status: 'pending' }: a key whose
\* value is undefined is not sent.
jobPayload(user) ==
  IF user = NULL THEN [status |-> "pending"]
  ELSE [user_id |-> user, status |-> "pending"]

insertJob(table, userFails, now, fails) ==
  LET r == StoreInsert(table, jobPayload(getUserDetails(userFails)), now, fails)
  IN IF r.error THEN Returns(<<>>, r.table)       \* throwOnError, catch: []
     ELSE Returns(OrEmpty(r), r.table)

insertJobP1(table, userFails, now, fails) ==
  LET r == StoreInsert(table, jobPayload(getUserDetails(userFails)), now, fails)
  IN Returns(OrEmpty(r), r.table)                  \* error only logged

\* Variant: the fields are inserted as a new row instead of updating.
updateJobAsInsert(table, jobId, updatedFields, fails) ==
  LET r == StoreInsert(table, updatedFields, 0, fails)
  IN IF r.error THEN Returns(<<>>, r.table)
     ELSE Returns(OrEmpty(r), r.table)

updateJob(table, jobId, updatedFields, fails) ==
  LET r == StoreUpdate(table, "id", jobId, updatedFields, fails)
  IN IF r.error THEN Returns(<<>>, r.table)
     ELSE Returns(OrEmpty(r), r.table)

updateJobP1(table, jobId, updatedFields, fails) ==
  LET r == StoreUpdate(table, "id", jobId, updatedFields, fails)
  IN Returns(OrEmpty(r), r.table)

updateJobByOriginalVideoUrl(table, originalVideoUrl, updatedFields, fails) ==
  LET r == StoreUpdate(table, "original_video_url", originalVideoUrl,
                       updatedFields, fails)
  IN IF r.error THEN Returns(<<>>, r.table)
     ELSE Returns(OrEmpty(r), r.table)

updateJobByOriginalVideoUrlP1(table, originalVideoUrl, updatedFields, fails) ==
  LET r == StoreUpdate(table, "original_video_url", originalVideoUrl,
                       updatedFields, fails)
  IN Returns(OrEmpty(r), r.table)

updateJobByTranscriptionId(table, transcriptionId, updatedFields, fails) ==
  LET r == StoreUpdate(table, "transcription_id", transcriptionId,
                       updatedFields, fails)
  IN IF r.error THEN Returns(<<>>, r.table)
     ELSE Returns(OrEmpty(r), r.table)

updateJobByTranscriptionIdP1(table, transcriptionId, updatedFields, fails) ==
  LET r == StoreUpdate(table, "transcription_id", transcriptionId,
                       updatedFields, fails)
  IN Returns(OrEmpty(r), r.table)

(***************************************************************************)
(* Inputs of the mutators.                                                 *)
(***************************************************************************)
FieldMaps ==
  { [status |-> "processing", original_video_url |-> "v1",
     transcription_id |-> "t1"],
    [status |-> "completed", credits |-> Num(100)] }

JobIds == 1 .. (MaxJobs + 1)
VideoUrls == {"v1", "v9"}
TranscriptionIds == {"t1", "t9"}

UpdateOps ==
  {"updateJob", "updateJobP1", "updateJobByOriginalVideoUrl",
   "updateJobByOriginalVideoUrlP1", "updateJobByTranscriptionId",
   "updateJobByTranscriptionIdP1"}
InsertOps == {"insertJob", "insertJobP1"}

KeyColumn(op) ==
  IF op \in {"updateJob", "updateJobP1"} THEN "id"
  ELSE IF op \in {"updateJobByOriginalVideoUrl", "updateJobByOriginalVideoUrlP1"}
       THEN "original_video_url"
       ELSE "transcription_id"

NoCall == [op |-> "none"]

Idle == <<>>

\* `again`: the call repeats the call before it (same function, same
\* arguments), and the statement of the call before it was executed.
Repeats(op, key, fields) ==
  /\ last.op = op
  /\ last.key = key
  /\ last.fields = fields
  /\ ~last.fails

(***************************************************************************)
(* Specification SpecJobs: calls of the job mutators, one at a time.       *)
(* `last` is the record of the call that ended last.                       *)
(***************************************************************************)
CallRecord(op, key, fields, userFails, fails, res) ==
  [op |-> op, key |-> key, fields |-> fields, userFails |-> userFails,
   fails |-> fails, threw |-> res.threw, value |-> res.value,
   again |-> Repeats(op, key, fields)]

Call_insertJob ==
  \E userFails \in BOOLEAN, fails \in BOOLEAN :
    LET res == insertJob(jobs, userFails, 0, fails)
    IN /\ fails \/ Len(jobs) < MaxJobs
       /\ jobs' = res.table
       /\ last' = CallRecord("insertJob", NULL, <<>>, userFails, fails, res)
       /\ UNCHANGED <<subscriptions, base, inflight, arrived, reqs>>

Call_insertJobP1 ==
  \E userFails \in BOOLEAN, fails \in BOOLEAN :
    LET res == insertJobP1(jobs, userFails, 0, fails)
    IN /\ fails \/ Len(jobs) < MaxJobs
       /\ jobs' = res.table
       /\ last' = CallRecord("insertJobP1", NULL, <<>>, userFails, fails, res)
       /\ UNCHANGED <<subscriptions, base, inflight, arrived, reqs>>

Call_updateJob ==
  \E jobId \in JobIds, f \in FieldMaps, fails \in BOOLEAN :
    LET res == updateJob(jobs, jobId, f, fails)
    IN /\ jobs' = res.table
       /\ last' = CallRecord("updateJob", jobId, f, FALSE, fails, res)
       /\ UNCHANGED <<subscriptions, base, inflight, arrived, reqs>>

Call_updateJobP1 ==
  \E jobId \in JobIds, f \in FieldMaps, fails \in BOOLEAN :
    LET res == updateJobP1(jobs, jobId, f, fails)
    IN /\ jobs' = res.table
       /\ last' = CallRecord("updateJobP1", jobId, f, FALSE, fails, res)
       /\ UNCHANGED <<subscriptions, base, inflight, arrived, reqs>>

Call_updateJobByOriginalVideoUrl ==
  \E url \in VideoUrls, f \in FieldMaps, fails \in BOOLEAN :
    LET res == updateJobByOriginalVideoUrl(jobs, url, f, fails)
    IN /\ jobs' = res.table
       /\ last' = CallRecord("updateJobByOriginalVideoUrl", url, f, FALSE, fails, res)
       /\ UNCHANGED <<subscriptions, base, inflight, arrived, reqs>>

Call_updateJobByOriginalVideoUrlP1 ==
  \E url \in VideoUrls, f \in FieldMaps, fails \in BOOLEAN :
    LET res == updateJobByOriginalVideoUrlP1(jobs, url, f, fails)
    IN /\ jobs' = res.table
       /\ last' = CallRecord("updateJobByOriginalVideoUrlP1", url, f, FALSE, fails, res)
       /\ UNCHANGED <<subscriptions, base, inflight, arrived, reqs>>

Call_updateJobByTranscriptionId ==
  \E tid \in TranscriptionIds, f \in FieldMaps, fails \in BOOLEAN :
    LET res == updateJobByTranscriptionId(jobs, tid, f, fails)
    IN /\ jobs' = res.table
       /\ last' = CallRecord("updateJobByTranscriptionId", tid, f, FALSE, fails, res)
       /\ UNCHANGED <<subscriptions, base, inflight, arrived, reqs>>

Call_updateJobByTranscriptionIdP1 ==
  \E tid \in TranscriptionIds, f \in FieldMaps, fails \in BOOLEAN :
    LET res == updateJobByTranscriptionIdP1(jobs, tid, f, fails)
    IN /\ jobs' = res.table
       /\ last' = CallRecord("updateJobByTranscriptionIdP1", tid, f, FALSE, fails, res)
       /\ UNCHANGED <<subscriptions, base, inflight, arrived, reqs>>

InitJobs ==
  /\ jobs = <<>>
  /\ subscriptions = <<>>
  /\ last = NoCall
  /\ base = <<>>
  /\ inflight = Idle
  /\ arrived = <<>>
  /\ reqs = Idle

NextJobs ==
  \/ Call_insertJob
  \/ Call_insertJobP1
  \/ Call_updateJob
  \/ Call_updateJobP1
  \/ Call_updateJobByOriginalVideoUrl
  \/ Call_updateJobByOriginalVideoUrlP1
  \/ Call_updateJobByTranscriptionId
  \/ Call_updateJobByTranscriptionIdP1

SpecJobs == InitJobs /\ [][NextJobs]_vars

(***************************************************************************)
(* Specification SpecConc: two callers update the jobs table concurrently. *)
(* A call sends one statement (Issue); the statement reaches the store     *)
(* and is executed there in one step (Arrive), or the query fails (Lose);  *)
(* either way the call then returns.  `base` is the table the callers      *)
(* start from, `arrived` the statements in the order the store executed    *)
(* them.                                                                   *)
(***************************************************************************)
Callers == {"a", "b"}

IdleCall == [pc |-> "idle"]

\* A job row as insertJob and earlier updates leave it.
BaseRow(id, url, tid) ==
  Assign(DefaultRow(id, 0),
         [user_id |-> SessionUser, status |-> "pending",
          original_video_url |-> url, transcription_id |-> tid])

BaseTables ==
  UNION { { t \in [1 .. n -> [url : {NULL, "v1"}, tid : {NULL, "t1"}]] : TRUE }
          : n \in 1 .. MaxJobs }

InitConc ==
  /\ \E t \in BaseTables :
       jobs = [i \in DOMAIN t |-> BaseRow(i, t[i].url, t[i].tid)]
  /\ base = jobs
  /\ subscriptions = <<>>
  /\ last = NoCall
  /\ inflight = [c \in Callers |-> IdleCall]
  /\ arrived = <<>>
  /\ reqs = Idle

Sent(c, op, key, fields) ==
  [inflight EXCEPT ![c] =
     [pc |-> "sent", op |-> op, key |-> key, fields |-> fields]]

Issue_updateJob(c) ==
  /\ inflight[c].pc = "idle"
  /\ \E jobId \in JobIds, f \in FieldMaps :
       inflight' = Sent(c, "updateJob", jobId, f)
  /\ UNCHANGED <<jobs, subscriptions, last, base, arrived, reqs>>

Issue_updateJobByOriginalVideoUrl(c) ==
  /\ inflight[c].pc = "idle"
  /\ \E url \in VideoUrls, f \in FieldMaps :
       inflight' = Sent(c, "updateJobByOriginalVideoUrl", url, f)
  /\ UNCHANGED <<jobs, subscriptions, last, base, arrived, reqs>>

Issue_updateJobByTranscriptionId(c) ==
  /\ inflight[c].pc = "idle"
  /\ \E tid \in TranscriptionIds, f \in FieldMaps :
       inflight' = Sent(c, "updateJobByTranscriptionId", tid, f)
  /\ UNCHANGED <<jobs, subscriptions, last, base, arrived, reqs>>

\* The function a call in flight runs, given the store's answer.
Run(call, table, fails) ==
  IF call.op = "updateJob" THEN updateJob(table, call.key, call.fields, fails)
  ELSE IF call.op = "updateJobByOriginalVideoUrl"
       THEN updateJobByOriginalVideoUrl(table, call.key, call.fields, fails)
       ELSE updateJobByTranscriptionId(table, call.key, call.fields, fails)

\* The statement of caller c reaches the store and is executed.
Arrive(c) ==
  /\ inflight[c].pc = "sent"
  /\ LET call == inflight[c]
         res == Run(call, jobs, FALSE)
     IN /\ jobs' = res.table
        /\ arrived' = Append(arrived,
                             [caller |-> c, op |-> call.op, key |-> call.key,
                              fields |-> call.fields,
                              overlap |-> \E d \in Callers \ {c} :
                                            inflight[d].pc = "sent"])
        /\ inflight' = [inflight EXCEPT ![c] =
                          [pc |-> "returned", op |-> call.op, key |-> call.key,
                           fields |-> call.fields, failed |-> FALSE,
                           threw |-> res.threw, value |-> res.value]]
  /\ UNCHANGED <<subscriptions, last, base, reqs>>

\* The query of caller c fails: no statement is executed.
Lose(c) ==
  /\ inflight[c].pc = "sent"
  /\ LET call == inflight[c]
         res == Run(call, jobs, TRUE)
     IN /\ jobs' = res.table
        /\ inflight' = [inflight EXCEPT ![c] =
                          [pc |-> "returned", op |-> call.op, key |-> call.key,
                           fields |-> call.fields, failed |-> TRUE,
                           threw |-> res.threw, value |-> res.value]]
  /\ UNCHANGED <<subscriptions, last, base, arrived, reqs>>

NextConc ==
  \E c \in Callers :
    \/ Issue_updateJob(c)
    \/ Issue_updateJobByOriginalVideoUrl(c)
    \/ Issue_updateJobByTranscriptionId(c)
    \/ Arrive(c)
    \/ Lose(c)

SpecConc == InitConc /\ [][NextConc]_vars

(***************************************************************************)
(* JSON values and JS conversions used by getCreditBalance.                *)
(* A JSON value is [t, s, n]: t is "string" (s its characters), "number"   *)
(* (n its value), "null" or "undefined" (a key that is absent).            *)
(***************************************************************************)
JString(s) == [t |-> "string", s |-> s, n |-> 0]
JNumber(n) == [t |-> "number", s |-> <<>>, n |-> n]
JNull == [t |-> "null", s |-> <<>>, n |-> 0]
JUndefined == [t |-> "undefined", s |-> <<>>, n |-> 0]

Digits == {"0", "1", "2", "3", "4", "5", "6", "7", "8", "9"}

DigitValue(d) ==
  CASE d = "0" -> 0 [] d = "1" -> 1 [] d = "2" -> 2 [] d = "3" -> 3
    [] d = "4" -> 4 [] d = "5" -> 5 [] d = "6" -> 6 [] d = "7" -> 7
    [] d = "8" -> 8 [] d = "9" -> 9

RECURSIVE TrimLeft(_)
TrimLeft(s) == IF s # <<>> /\ Head(s) = " " THEN TrimLeft(Tail(s)) ELSE s

RECURSIVE TrimRight(_)
TrimRight(s) ==
  IF s # <<>> /\ s[Len(s)] = " " THEN TrimRight(SubSeq(s, 1, Len(s) - 1)) ELSE s

AllDigits(s) == s # <<>> /\ \A i \in DOMAIN s : s[i] \in Digits

RECURSIVE DigitsValue(_)
DigitsValue(s) ==
  IF s = <<>> THEN 0
  ELSE 10 * DigitsValue(SubSeq(s, 1, Len(s) - 1)) + DigitValue(s[Len(s)])

\* Number(<string>): white space is trimmed, the empty string is 0, a decimal
\* numeral with an optional sign is its value, anything else is NaN.  (The
\* fraction, exponent, radix-prefix and Infinity forms need characters the
\* model's strings do not use.)
StringToNumber(s) ==
  LET t == TrimRight(TrimLeft(s))
  IN IF t = <<>> THEN JS(0)
     ELSE IF AllDigits(t) THEN JS(DigitsValue(t))
     ELSE IF Head(t) = "-" /\ AllDigits(Tail(t)) THEN JS(0 - DigitsValue(Tail(t)))
     ELSE IF Head(t) = "+" /\ AllDigits(Tail(t)) THEN JS(DigitsValue(Tail(t)))
     ELSE NaN

\* Number(v)
Number(v) ==
  CASE v.t = "string" -> StringToNumber(v.s)
    [] v.t = "number" -> JS(v.n)
    [] v.t = "null" -> JS(0)
    [] v.t = "undefined" -> NaN

\* v ?? d
Nullish(v, d) == IF v.t \in {"null", "undefined"} THEN d ELSE v

(***************************************************************************)
(* products.metadata as the subscription lookup joins it: kind is          *)
(* "undefined" (no price or product joined), "null", "scalar" (a JSON      *)
(* value that is not an object) or "object"; an object has the key credits *)
(* (has) with the value credits, or lacks it.                              *)
(***************************************************************************)
MetaUndefined == [kind |-> "undefined", has |-> FALSE, credits |-> JUndefined]
MetaNull == [kind |-> "null", has |-> FALSE, credits |-> JUndefined]
MetaScalar == [kind |-> "scalar", has |-> FALSE, credits |-> JUndefined]
MetaNoCredits == [kind |-> "object", has |-> FALSE, credits |-> JUndefined]
MetaCredits(v) == [kind |-> "object", has |-> TRUE, credits |-> v]

\* metadata?.credits
CreditsOf(metadata) ==
  IF metadata.kind = "object" /\ metadata.has THEN metadata.credits ELSE JUndefined

(***************************************************************************)
(* Queries.                                                                *)
(***************************************************************************)
\* .order('created_at', { ascending: false })
RECURSIVE OrderByCreatedAtDesc(_)
OrderByCreatedAtDesc(rows) ==
  IF rows = <<>> THEN <<>>
  ELSE LET top == CHOOSE i \in DOMAIN rows :
                    /\ \A j \in DOMAIN rows : rows[j].created_at <= rows[i].created_at
                    /\ \A j \in 1 .. (i - 1) : rows[j].created_at < rows[i].created_at
           rest == [k \in 1 .. (Len(rows) - 1) |->
                      IF k < top THEN rows[k] ELSE rows[k + 1]]
       IN <<rows[top]>> \o OrderByCreatedAtDesc(rest)

\* Variant: the listing of getJobsNotDeleted (own, not deleted jobs).
StoreSelectJobsNotDeleted(table, fails) ==
  IF fails THEN Failed(table)
  ELSE LET keep(row) == row.user_id = SessionUser /\ row.is_deleted # TRUE
       IN Ok(OrderByCreatedAtDesc(SelectSeq(table, keep)), table)

\* from('jobs').select('*').order('created_at', { ascending: false })
StoreSelectJobs(table, fails) ==
  IF fails THEN Failed(table) ELSE Ok(OrderByCreatedAtDesc(table), table)

\* Variant: .lt('created_at', endDate), the period's end excluded.
StoreSelectJobsBetweenExclusive(table, userId, startDate, endDate, fails) ==
  IF fails THEN Failed(table)
  ELSE LET keep(row) ==
             /\ row.user_id = userId
             /\ row.created_at >= startDate
             /\ row.created_at < endDate
       IN Ok(SelectSeq(table, keep), table)

\* from('jobs').select('*').eq('user_id', userId)
\*   .gte('created_at', startDate).lte('created_at', endDate)
StoreSelectJobsBetween(table, userId, startDate, endDate, fails) ==
  IF fails THEN Failed(table)
  ELSE LET keep(row) ==
             /\ row.user_id = userId
             /\ row.created_at >= startDate
             /\ row.created_at <= endDate
       IN Ok(SelectSeq(table, keep), table)

ActiveLike == {"trialing", "active"}

\* Variant: .limit(1) in place of .maybeSingle(): the first matching row.
StoreSelectSubscriptionFirst(subs, fails) ==
  LET keep(row) == row.status \in ActiveLike
      rows == SelectSeq(subs, keep)
  IN IF fails THEN Failed(subs)
     ELSE IF rows = <<>> THEN [Ok(<<>>, subs) EXCEPT !.dataNull = TRUE]
     ELSE Ok(<<rows[1]>>, subs)

\* from('subscriptions').select('*, prices(*, products(*))')
\*   .in('status', ['trialing', 'active']).maybeSingle()
\* maybeSingle: no row is data null, one row is that row, more rows are an
\* error.
StoreSelectSubscription(subs, fails) ==
  LET keep(row) == row.status \in ActiveLike
      rows == SelectSeq(subs, keep)
  IN IF fails \/ Len(rows) > 1 THEN Failed(subs)
     ELSE IF rows = <<>> THEN [Ok(<<>>, subs) EXCEPT !.dataNull = TRUE]
     ELSE Ok(rows, subs)

\* getSubscription (both copies): <<>> for null, <<row>> for a subscription.
getSubscription(subs, fails) ==
  LET r == StoreSelectSubscription(subs, fails)
  IN IF r.error THEN <<>>                 \* throwOnError, catch: null
     ELSE IF r.dataNull THEN <<>> ELSE r.data

\* getJobs (part_002): { success, data }.
getJobs(table, fails) ==
  LET r == StoreSelectJobs(table, fails)
  IN IF r.error THEN [success |-> FALSE, dataNull |-> TRUE, data |-> <<>>]
     ELSE [success |-> TRUE, dataNull |-> r.dataNull, data |-> r.data]

\* getJobs (part_001): no throwOnError, so a failed query is not thrown and
\* the function returns { success: true, data: null }.
getJobsP1(table, fails) ==
  LET r == StoreSelectJobs(table, fails)
  IN [success |-> TRUE, dataNull |-> r.dataNull, data |-> r.data]

\* getJobsBetweenDates (both copies): the rows, or null (dataNull) when the
\* query failed (caught in part_002, data null in part_001).
getJobsBetweenDates(table, userId, startDate, endDate, fails) ==
  LET r == StoreSelectJobsBetween(table, userId, startDate, endDate, fails)
  IN IF r.error THEN [dataNull |-> TRUE, data |-> <<>>]
     ELSE [dataNull |-> r.dataNull, data |-> r.data]

\* job.credits || 0
CreditsOrZero(row) ==
  IF row.credits = NullNum \/ row.credits = Num(0) THEN JS(0)
  ELSE JS(row.credits[1])

\* rows.reduce((sum, job) => sum + (job.credits || 0), 0)
RECURSIVE ReduceCredits(_, _)
ReduceCredits(sum, rows) ==
  IF rows = <<>> THEN sum
  ELSE ReduceCredits(JSPlus(sum, CreditsOrZero(Head(rows))), Tail(rows))

defaultCredits == 7500

Balance(remaining, outOf) == [remaining |-> remaining, outOf |-> outOf]

\* The free-tier branch of getCreditBalance, given getJobs' result.
FreeTier(table, listing) ==
  IF listing.success /\ listing.dataNull
  THEN Throws(table)                      \* null.reduce: TypeError
  ELSE LET creditsSpent == IF listing.success
                           THEN ReduceCredits(JS(0), listing.data)
                           ELSE JS(0)
       IN Returns(Balance(JSMinus(JS(defaultCredits), creditsSpent),
                          JS(defaultCredits)), table)

\* The subscribed branch, given the allotment read from the metadata.
Subscribed(table, sub, subscriptionCredits, jobsFails) ==
  LET found == getJobsBetweenDates(table, sub.user_id, sub.current_period_start,
                                   sub.current_period_end, jobsFails)
      creditsSpent == IF found.dataNull THEN JS(0)
                      ELSE ReduceCredits(JS(0), found.data)
  IN Returns(Balance(JSMinus(subscriptionCredits, creditsSpent),
                     subscriptionCredits), table)

\* getCreditBalance (part_002)
getCreditBalance(table, subs, subFails, jobsFails) ==
  LET subscription == getSubscription(subs, subFails)
  IN IF subscription # <<>>
     THEN LET rawMetadata == subscription[1].metadata
              hasCredits == rawMetadata.kind = "object" /\ rawMetadata.has
              subscriptionCredits ==
                IF hasCredits THEN Number(Nullish(CreditsOf(rawMetadata), JNumber(0)))
                ELSE Number(JNumber(0))
          IN Subscribed(table, subscription[1], subscriptionCredits, jobsFails)
     ELSE FreeTier(table, getJobs(table, jobsFails))

\* getCreditBalance (part_001)
getCreditBalanceP1(table, subs, subFails, jobsFails) ==
  LET subscription == getSubscription(subs, subFails)
  IN IF subscription # <<>>
     THEN LET metadata == subscription[1].metadata
              subscriptionCredits == Number(CreditsOf(metadata))
          IN Subscribed(table, subscription[1], subscriptionCredits, jobsFails)
     ELSE FreeTier(table, getJobsP1(table, jobsFails))

(***************************************************************************)
(* Specification SpecCredit: getCreditBalance over a store drawn at the    *)
(* start.  The function only reads, so the store stays as drawn; `last` is *)
(* the record of the call that ended last.                                 *)
(***************************************************************************)
\* The job rows the tables are drawn from.
JobSamples(id) ==
  { Assign(DefaultRow(id, t),
           [user_id |-> x.user_id, status |-> "completed", credits |-> x.credits,
            is_deleted |-> x.is_deleted])
    : t \in Times,
      x \in { [user_id |-> SessionUser, credits |-> NullNum, is_deleted |-> FALSE],
              [user_id |-> SessionUser, credits |-> Num(50), is_deleted |-> FALSE],
              [user_id |-> SessionUser, credits |-> Num(100), is_deleted |-> FALSE],
              [user_id |-> SessionUser, credits |-> Num(100), is_deleted |-> TRUE],
              [user_id |-> OtherUser, credits |-> Num(100), is_deleted |-> FALSE] } }

\* Tables of at most MaxJobs rows; ids are given in insertion order and
\* created_at is stamped at insertion, so created_at does not decrease.
JobTables ==
  UNION { { t \in [1 .. n -> UNION {JobSamples(i) : i \in 1 .. n}] :
              /\ \A i \in 1 .. n : t[i].id = i
              /\ \A i \in 1 .. (n - 1) : t[i].created_at <= t[i + 1].created_at }
          : n \in 0 .. MaxJobs }

CreditStrings ==
  { <<"5", "0", "0">>, <<"5", "0">>, <<>>, <<" ", "5", "0", " ">>,
    <<"-", "5">>, <<"a", "b", "c">>, <<"5", "a">> }

Metadatas ==
  {MetaUndefined, MetaNull, MetaScalar, MetaNoCredits, MetaCredits(JNull),
   MetaCredits(JNumber(500))} \cup {MetaCredits(JString(s)) : s \in CreditStrings}

\* A subscription row of the session's user; the billing period is
\* [1, MaxTime - 1].
SubscriptionRow(status, metadata) ==
  [user_id |-> SessionUser, status |-> status, current_period_start |-> 1,
   current_period_end |-> MaxTime - 1, metadata |-> metadata]

SubscriptionTables ==
  { <<>>,
    <<SubscriptionRow("canceled", MetaCredits(JString(<<"5", "0", "0">>)))>>,
    <<SubscriptionRow("trialing", MetaCredits(JString(<<"5", "0">>)))>>,
    <<SubscriptionRow("active", MetaCredits(JString(<<"5", "0", "0">>))),
      SubscriptionRow("trialing", MetaCredits(JString(<<"5", "0">>)))>>,
    <<SubscriptionRow("canceled", MetaCredits(JString(<<"5", "0">>))),
      SubscriptionRow("active", MetaCredits(JString(<<"5", "0", "0">>)))>> }
  \cup { <<SubscriptionRow("active", m)>> : m \in Metadatas }

InitCredit ==
  /\ jobs \in JobTables
  /\ subscriptions \in SubscriptionTables
  /\ last = NoCall
  /\ base = <<>>
  /\ inflight = Idle
  /\ arrived = <<>>
  /\ reqs = Idle

BalanceRecord(op, subFails, jobsFails, res) ==
  [op |-> op, subFails |-> subFails, jobsFails |-> jobsFails,
   threw |-> res.threw, value |-> res.value]

Call_getCreditBalance ==
  \E subFails \in BOOLEAN, jobsFails \in BOOLEAN :
    LET res == getCreditBalance(jobs, subscriptions, subFails, jobsFails)
    IN /\ last' = BalanceRecord("getCreditBalance", subFails, jobsFails, res)
       /\ UNCHANGED <<jobs, subscriptions, base, inflight, arrived, reqs>>

Call_getCreditBalanceP1 ==
  \E subFails \in BOOLEAN, jobsFails \in BOOLEAN :
    LET res == getCreditBalanceP1(jobs, subscriptions, subFails, jobsFails)
    IN /\ last' = BalanceRecord("getCreditBalanceP1", subFails, jobsFails, res)
       /\ UNCHANGED <<jobs, subscriptions, base, inflight, arrived, reqs>>

NextCredit ==
  \/ Call_getCreditBalance
  \/ Call_getCreditBalanceP1

SpecCredit == InitCredit /\ [][NextCredit]_vars

(***************************************************************************)
(* Specification SpecAuth: the OAuth callback route, GET.  Each request    *)
(* runs the handler: GET_Start reads the code parameter and either awaits  *)
(* the code exchange or goes on; GET_Exchange is the exchange returning    *)
(* (its {data, error} result is dropped); GET_Redirect builds the          *)
(* response.  events lists what the handler has done, in order.            *)
(***************************************************************************)
Requests == {"r1", "r2"}
Origins == {"https://app", "http://localhost"}

\* searchParams.get('code'): NULL when the parameter is absent.
CodeParams == {NULL, "", "c1", "c2"}

\* if (code): null and the empty string are falsy.
Truthy(code) == code # NULL /\ code # ""

IdleRequest ==
  [pc |-> "idle", origin |-> NULL, code |-> NULL, events |-> <<>>,
   exchange |-> NULL, location |-> <<>>]

\* Variant: a failed exchange is sent to a sign-in page with an error.
RedirectTargetByOutcome(req) ==
  IF req.exchange = "error" THEN <<req.origin, "/signin?error">>
  ELSE <<req.origin, "/subscription">>

\* `${requestUrl.origin}/subscription`
RedirectTarget(req) == <<req.origin, "/subscription">>

GET_Start(r) ==
  /\ reqs[r].pc = "idle"
  /\ \E origin \in Origins, code \in CodeParams :
       reqs' = [reqs EXCEPT ![r] =
                  [IdleRequest EXCEPT
                     !.origin = origin,
                     !.code = code,
                     !.pc = IF Truthy(code) THEN "exchanging" ELSE "responding"]]
  /\ UNCHANGED <<jobs, subscriptions, last, base, inflight, arrived>>

\* await supabase.auth.exchangeCodeForSession(code) returns a session or an
\* error object; the handler looks at neither.
GET_Exchange(r) ==
  /\ reqs[r].pc = "exchanging"
  /\ \E outcome \in {"session", "error"} :
       reqs' = [reqs EXCEPT ![r] =
                  [reqs[r] EXCEPT
                     !.exchange = outcome,
                     !.events = Append(reqs[r].events, "exchange"),
                     !.pc = "responding"]]
  /\ UNCHANGED <<jobs, subscriptions, last, base, inflight, arrived>>

GET_Redirect(r) ==
  /\ reqs[r].pc = "responding"
  /\ reqs' = [reqs EXCEPT ![r] =
                [reqs[r] EXCEPT
                   !.location = RedirectTarget(reqs[r]),
                   !.events = Append(reqs[r].events, "redirect"),
                   !.pc = "done"]]
  /\ UNCHANGED <<jobs, subscriptions, last, base, inflight, arrived>>

InitAuth ==
  /\ jobs = <<>>
  /\ subscriptions = <<>>
  /\ last = NoCall
  /\ base = <<>>
  /\ inflight = Idle
  /\ arrived = <<>>
  /\ reqs = [r \in Requests |-> IdleRequest]

NextAuth ==
  \E r \in Requests :
    \/ GET_Start(r)
    \/ GET_Exchange(r)
    \/ GET_Redirect(r)

SpecAuth == InitAuth /\ [][NextAuth]_vars

(***************************************************************************)
(* Claims about the job mutators (SpecJobs).                               *)
(***************************************************************************)

\* C5: updateJob is idempotent: a call of updateJob(jobId, fields) that
\* directly follows a call with the same jobId and the same field map, whose
\* statement the store executed, leaves every job row as the first call left
\* it (twice is the same as once).
C5_UpdateJobIdempotent ==
  [][ ( /\ last.op = "updateJob"
        /\ ~last.fails
        /\ last'.op = "updateJob"
        /\ last'.key = last.key
        /\ last'.fields = last.fields )
      => jobs' = jobs ]_vars

\* C5 witness: a second updateJob call with the same arguments has ended, its
\* statement was executed and it matched a row that carries the fields.
C5_Witness ==
  /\ last.op = "updateJob"
  /\ last.again
  /\ ~last.fails
  /\ Len(last.value) = 1
  /\ last.value[1].status = last.fields.status
  /\ jobs[last.key].status = last.fields.status

\* Whether no row of `table` has `key` in column `col`.
NoRowMatches(table, col, key) == \A i \in DOMAIN table : table[i][col] # key

\* C6: a mutator call whose store query fails, or an update whose key matches
\* zero rows, returns the empty list, throws nothing and changes no job row.
C6_FailureReturnsEmpty ==
  [][ ( /\ last'.op \in UpdateOps \cup InsertOps
        /\ \/ last'.fails
           \/ /\ last'.op \in UpdateOps
              /\ NoRowMatches(jobs, KeyColumn(last'.op), last'.key) )
      => ( /\ last'.value = <<>>
           /\ ~last'.threw
           /\ jobs' = jobs ) ]_vars

\* C6 witness (scenario 3): updateJobByTranscriptionId ran against a
\* non-empty table with an id no row carries, and returned the empty list.
C6_Witness ==
  /\ last.op = "updateJobByTranscriptionId"
  /\ ~last.fails
  /\ Len(jobs) > 0
  /\ NoRowMatches(jobs, "transcription_id", last.key)
  /\ last.value = <<>>
  /\ ~last.threw

\* C8: every row insertJob adds has status "pending", user_id equal to the
\* id of the session's user and every other column at the store's default,
\* also when the user-details lookup returned null.
C8_InsertedRowOwnedBySessionUser ==
  [][ ( /\ last'.op = "insertJob"
        /\ Len(jobs') > Len(jobs) )
      => LET row == jobs'[Len(jobs')]
         IN row = Assign(DefaultRow(Len(jobs'), row.created_at),
                         [user_id |-> SessionUser, status |-> "pending"]) ]_vars

\* C8, the case that fails: the user lookup returned null, the payload went
\* out without user_id and the store added the row with no owner.
C8_Witness ==
  /\ last.op = "insertJob"
  /\ ~last.fails
  /\ last.userFails
  /\ Len(last.value) = 1
  /\ last.value[1].user_id = NULL
  /\ last.value[1].status = "pending"

(***************************************************************************)
(* Claims about getCreditBalance (SpecCredit).  The quantities the claims  *)
(* speak of are read off the store, not off the function's queries.        *)
(***************************************************************************)
\* The subscriptions the lookup is about: status trialing or active.
ActiveRows == {i \in DOMAIN subscriptions : subscriptions[i].status \in ActiveLike}

TheSubscription == subscriptions[CHOOSE i \in ActiveRows : TRUE]

\* The lookup returns a subscription: the query worked and one row matches.
LookupReturnsSubscription == ~last.subFails /\ Cardinality(ActiveRows) = 1

\* The sum of credits (NULL counted as 0) over the job rows at positions S.
RECURSIVE SumCredits(_)
SumCredits(S) ==
  IF S = {} THEN 0
  ELSE LET i == CHOOSE x \in S : TRUE
       IN (IF jobs[i].credits = NullNum THEN 0 ELSE jobs[i].credits[1])
          + SumCredits(S \ {i})

\* The jobs of the subscription's user created within its billing period,
\* both ends included.
InPeriodJobs(sub) ==
  {i \in DOMAIN jobs :
     /\ jobs[i].user_id = sub.user_id
     /\ sub.current_period_start <= jobs[i].created_at
     /\ jobs[i].created_at <= sub.current_period_end}

\* A credits value that is an allotment A: a JSON number, or a string that is
\* a plain decimal numeral.
RECURSIVE NumeralValue(_, _)
NumeralValue(acc, s) ==
  IF s = <<>> THEN acc ELSE NumeralValue(10 * acc + DigitValue(Head(s)), Tail(s))

HasAllotment(metadata) ==
  /\ metadata.kind = "object"
  /\ metadata.has
  /\ \/ metadata.credits.t = "number"
     \/ /\ metadata.credits.t = "string"
        /\ metadata.credits.s # <<>>
        /\ \A i \in DOMAIN metadata.credits.s : metadata.credits.s[i] \in Digits

AllotmentOf(metadata) ==
  IF metadata.credits.t = "number" THEN metadata.credits.n
  ELSE NumeralValue(0, metadata.credits.s)

\* C1 as stated: whenever the lookup returns a subscription with allotment A,
\* getCreditBalance returns remaining = A - S and outOf = A, S the sum of the
\* credits of the user's jobs created within the billing period.
C1_SubscribedBalanceAlways ==
  ( /\ last.op = "getCreditBalance"
    /\ LookupReturnsSubscription
    /\ HasAllotment(TheSubscription.metadata) )
  => LET A == AllotmentOf(TheSubscription.metadata)
         S == SumCredits(InPeriodJobs(TheSubscription))
     IN /\ ~last.threw
        /\ last.value = Balance(JS(A - S), JS(A))

\* C1 as amended: the same, provided the in-period job query succeeds (a
\* failed job query is read as no jobs; remaining may be negative).
C1_SubscribedBalance ==
  ( /\ last.op = "getCreditBalance"
    /\ LookupReturnsSubscription
    /\ ~last.jobsFails
    /\ HasAllotment(TheSubscription.metadata) )
  => LET A == AllotmentOf(TheSubscription.metadata)
         S == SumCredits(InPeriodJobs(TheSubscription))
     IN /\ ~last.threw
        /\ last.value = Balance(JS(A - S), JS(A))

\* C1 witness: allotment "50", two jobs of the user inside the period with
\* credits 100 and 50 next to none outside: remaining is -100 of 50.
C1_Witness ==
  /\ last.op = "getCreditBalance"
  /\ LookupReturnsSubscription
  /\ ~last.jobsFails
  /\ TheSubscription.metadata = MetaCredits(JString(<<"5", "0">>))
  /\ Len(jobs) = 2
  /\ InPeriodJobs(TheSubscription) = {1, 2}
  /\ jobs[1].created_at = TheSubscription.current_period_start
  /\ jobs[2].created_at = TheSubscription.current_period_end
  /\ {jobs[1].credits, jobs[2].credits} = {Num(100), Num(50)}
  /\ last.value = Balance(JS(-100), JS(50))

\* C2: with no trialing or active subscription, getCreditBalance returns
\* outOf = 7500 and remaining = 7500 minus the credits of every job the
\* unfiltered listing returns: every row of the table, whatever its period,
\* is_deleted or user (no row when the listing fails).
C2_FreeTierBalance ==
  ( /\ last.op = "getCreditBalance"
    /\ ActiveRows = {} )
  => LET S == IF last.jobsFails THEN 0 ELSE SumCredits(DOMAIN jobs)
     IN /\ ~last.threw
        /\ last.value = Balance(JS(7500 - S), JS(7500))

\* C2 witness: no subscription; a deleted job and another user's job, both
\* outside the period of any subscription, are both counted.
C2_Witness ==
  /\ last.op = "getCreditBalance"
  /\ subscriptions = <<>>
  /\ ~last.subFails
  /\ ~last.jobsFails
  /\ Len(jobs) = 2
  /\ jobs[1].is_deleted /\ jobs[1].created_at = 0
  /\ jobs[2].user_id = OtherUser /\ jobs[2].created_at = MaxTime
  /\ last.value = Balance(JS(7300), JS(7500))

IsBalance(value) ==
  /\ DOMAIN value = {"remaining", "outOf"}
  /\ DOMAIN value.remaining = {"nan", "v"}
  /\ DOMAIN value.outOf = {"nan", "v"}

\* C3: getCreditBalance never throws: whatever queries fail, it returns a
\* pair {remaining, outOf} of numbers, and a failed job query counts as no
\* jobs (nothing spent).
C3_NeverThrows ==
  last.op \in {"getCreditBalance", "getCreditBalanceP1"}
  => /\ ~last.threw
     /\ IsBalance(last.value)
     /\ last.jobsFails => last.value.remaining = last.value.outOf

\* C3, the failing case: the copy of part_001, no subscription, the job
\* listing fails: the function throws.
C3_Witness ==
  /\ last.op = "getCreditBalanceP1"
  /\ ActiveRows = {}
  /\ last.jobsFails
  /\ last.threw

\* Metadata that carries no well-formed number: no metadata, no credits key,
\* credits null, empty, or holding a character no number has.
NoWellFormedNumber(metadata) ==
  \/ metadata.kind # "object"
  \/ ~metadata.has
  \/ metadata.credits.t = "null"
  \/ /\ metadata.credits.t = "string"
     /\ \/ metadata.credits.s = <<>>
        \/ \E i \in DOMAIN metadata.credits.s :
             metadata.credits.s[i] \notin Digits \cup {"-", "+", " "}

\* C4: in the subscribed path, metadata without a well-formed credits number
\* gives allotment 0: outOf = 0 and remaining = 0 - S, never NaN.
C4_MalformedAllotmentIsZero ==
  ( /\ last.op \in {"getCreditBalance", "getCreditBalanceP1"}
    /\ LookupReturnsSubscription
    /\ NoWellFormedNumber(TheSubscription.metadata) )
  => LET S == IF last.jobsFails THEN 0
              ELSE SumCredits(InPeriodJobs(TheSubscription))
     IN /\ ~last.threw
        /\ last.value = Balance(JS(0 - S), JS(0))

\* C4, the failing case: credits "abc" in part_002: outOf is NaN.
C4_Witness ==
  /\ last.op = "getCreditBalance"
  /\ LookupReturnsSubscription
  /\ TheSubscription.metadata = MetaCredits(JString(<<"a", "b", "c">>))
  /\ last.value.outOf = NaN
  /\ last.value.remaining = NaN

\* C10: when the subscription lookup fails (the query errs, or more than one
\* trialing/active row matches the single-row lookup), getCreditBalance
\* returns what it returns for a user without subscription: outOf = 7500 and
\* remaining = 7500 minus the credits of the unfiltered listing, a pair with
\* nothing else in it.
C10_FailedLookupIsFreeTier ==
  ( /\ last.op = "getCreditBalance"
    /\ last.subFails \/ Cardinality(ActiveRows) > 1 )
  => LET S == IF last.jobsFails THEN 0 ELSE SumCredits(DOMAIN jobs)
     IN /\ ~last.threw
        /\ last.value = Balance(JS(7500 - S), JS(7500))

\* C10 witness: two trialing/active rows, the query itself works, a job of 50
\* credits outside the period: the balance is the free tier's 7450 of 7500.
C10_Witness ==
  /\ last.op = "getCreditBalance"
  /\ ~last.subFails
  /\ Cardinality(ActiveRows) = 2
  /\ ~last.jobsFails
  /\ Len(jobs) = 1
  /\ jobs[1].created_at = 0
  /\ last.value = Balance(JS(7450), JS(7500))

(***************************************************************************)
(* Claim about concurrent updates (SpecConc).                              *)
(***************************************************************************)

\* One unconditional UPDATE ... SET fields WHERE col = key, as the claim
\* states it: every row with the key takes every field of the map, whatever
\* the row held before; every other column and row is kept.
Overwrite(table, stmt) ==
  [i \in DOMAIN table |->
     [c \in Columns |->
        IF table[i][KeyColumn(stmt.op)] = stmt.key /\ c \in DOMAIN stmt.fields
        THEN stmt.fields[c]
        ELSE table[i][c]]]

RECURSIVE InArrivalOrder(_, _)
InArrivalOrder(table, stmts) ==
  IF stmts = <<>> THEN table
  ELSE InArrivalOrder(Overwrite(table, Head(stmts)), Tail(stmts))

\* C9: concurrent updates are last-write-wins.  The table always equals the
\* base table with the statements applied in the order they reached the
\* store, each as an unconditional overwrite; every call whose query did not
\* fail was executed exactly once (none rejected, none retried).
C9_LastWriteWins ==
  /\ jobs = InArrivalOrder(base, arrived)
  /\ \A c \in DOMAIN inflight :
       inflight[c].pc = "returned" =>
         Cardinality({k \in DOMAIN arrived : arrived[k].caller = c})
           = (IF inflight[c].failed THEN 0 ELSE 1)

\* C9 witness: two statements that were in flight together hit the same row
\* with different values for status; the row holds the later one's status and
\* the fields only the earlier one set.
C9_Witness ==
  /\ Len(arrived) = 2
  /\ arrived[1].overlap
  /\ arrived[1].op = "updateJobByTranscriptionId"
  /\ arrived[2].op = "updateJob"
  /\ arrived[2].key \in DOMAIN base
  /\ arrived[1].key = base[arrived[2].key].transcription_id
  /\ arrived[1].fields.status # arrived[2].fields.status
  /\ jobs[arrived[2].key].status = arrived[2].fields.status
  /\ jobs[arrived[2].key].credits = Num(100)
  /\ jobs[arrived[2].key].status = "processing"
  /\ \A c \in Callers : inflight[c].pc = "returned" /\ Len(inflight[c].value) = 1

(***************************************************************************)
(* Claim about the OAuth callback (SpecAuth).                              *)
(***************************************************************************)

\* C7: every invocation of GET ends with a redirect to /subscription on the
\* request's origin, with or without code and whatever the exchange gave;
\* the exchange is attempted exactly when a non-empty code is present, and
\* before the redirect.  A started invocation can always take its next step,
\* so it only ends at the redirect.
C7_CallbackAlwaysRedirects ==
  \A r \in DOMAIN reqs :
    /\ reqs[r].pc = "done" =>
         /\ reqs[r].location = <<reqs[r].origin, "/subscription">>
         /\ reqs[r].events =
              (IF reqs[r].code # NULL /\ reqs[r].code # ""
               THEN <<"exchange", "redirect">>
               ELSE <<"redirect">>)
    /\ reqs[r].pc \in {"exchanging", "responding"} =>
         ENABLED (GET_Exchange(r) \/ GET_Redirect(r))
    /\ reqs[r].pc # "done" => reqs[r].location = <<>>

\* C7 witness: one invocation without code (scenario 4) and one whose
\* exchange failed have both ended, both redirected to /subscription.
C7_Witness ==
  /\ reqs["r1"].pc = "done"
  /\ reqs["r1"].code = NULL
  /\ reqs["r1"].events = <<"redirect">>
  /\ reqs["r1"].location = <<"https://app", "/subscription">>
  /\ reqs["r2"].pc = "done"
  /\ reqs["r2"].code = "c1"
  /\ reqs["r2"].exchange = "error"
  /\ reqs["r2"].events = <<"exchange", "redirect">>
  /\ reqs["r2"].location = <<"http://localhost", "/subscription">>

====
